---- MODULE Spec2Model ----
(***************************************************************************)
(* A model of archive-daum-cafe: the cookie-derived authentication         *)
(* (src/src/cookies.rs) and the incremental crawl with bounded-concurrency *)
(* asset download and copy-then-rename publish (src/src/downloader.rs).    *)
(*                                                                         *)
(* A Rust String is a sequence of one-character strings, so that split,    *)
(* format! and parse are computed on characters as the code computes them. *)
(* An Option is a sequence of length 0 (None) or 1 (Some).                 *)
(***************************************************************************)
EXTENDS Integers, Sequences, FiniteSets, TLC

\* ------------------------------------------------------------------ bounds

\* Number of runs of the program (process starts) a behaviour holds.
MaxRuns == 2
\* Largest post ID the latest-ID listing can report.
MaxId == 2
\* Largest configured max_connections.
MaxConn == 2
\* Largest number of files of a post whose downloads are interleaved.
MaxFiles == 3
\* Largest number of fetches of one unbounded scan.
MaxStreakFetches == 10
\* Largest number of entries of a listed output directory.
MaxListing == 5

\* ------------------------------------------------------- program constants

\* truncate_str_to_length(name, 100)
TitleMax == 100
\* &date[..8]
DateLen == 8
\* {:04} in the prefix, {:03} in the asset names
IdWidth == 4
AssetWidth == 3
\* sanitize_filename truncates a name to 255 bytes
NameMax == 255
\* default_num_processes()
DefaultMaxConnections == 20

\* ------------------------------------------------------------------ strings

Digit == <<"0", "1", "2", "3", "4", "5", "6", "7", "8", "9">>

IsDigit(c) == \E d \in 1..10 : Digit[d] = c

DigitValue(c) == (CHOOSE d \in 1..10 : Digit[d] = c) - 1

Min(a, b) == IF a <= b THEN a ELSE b

Max(S) == CHOOSE m \in S : \A x \in S : x <= m

Range(s) == {s[i] : i \in DOMAIN s}

\* str.split(sep): the segments between the separators, empty ones included.
RECURSIVE Split(_, _)
Split(s, sep) ==
    IF \E i \in 1..Len(s) : s[i] = sep
    THEN LET i == CHOOSE k \in 1..Len(s) :
                      s[k] = sep /\ \A j \in 1..(k - 1) : s[j] # sep
         IN  <<SubSeq(s, 1, i - 1)>> \o Split(SubSeq(s, i + 1, Len(s)), sep)
    ELSE <<s>>

\* Iterator::nth(n), zero-based.
Nth(segs, n) == IF n + 1 <= Len(segs) THEN <<segs[n + 1]>> ELSE <<>>

\* The decimal digits of n.
RECURSIVE Decimal(_)
Decimal(n) ==
    IF n < 10 THEN <<Digit[n + 1]>>
    ELSE Decimal(n \div 10) \o <<Digit[(n % 10) + 1]>>

\* format!("{:0w}", n): zero-padded to at least w digits.
RECURSIVE PadZero(_, _)
PadZero(s, w) == IF Len(s) >= w THEN s ELSE PadZero(<<"0">> \o s, w)

FormatPadded(n, w) == PadZero(Decimal(n), w)

RECURSIVE DigitsValue(_)
DigitsValue(s) ==
    IF Len(s) = 0 THEN 0
    ELSE 10 * DigitsValue(SubSeq(s, 1, Len(s) - 1)) + DigitValue(s[Len(s)])

\* str::parse::<usize>(): an optional '+', then one or more digits.
ParseUsize(s) ==
    LET body == IF Len(s) > 0 /\ s[1] = "+" THEN Tail(s) ELSE s
    IN  IF Len(body) > 0 /\ \A i \in 1..Len(body) : IsDigit(body[i])
        THEN <<DigitsValue(body)>>
        ELSE <<>>

\* Characters sanitize_filename removes.
IllegalChars == {"/", "?", "<", ">", "\\", ":", "*", "|", "\""}

RECURSIVE RemoveIllegal(_)
RemoveIllegal(s) ==
    IF Len(s) = 0 THEN <<>>
    ELSE (IF Head(s) \in IllegalChars THEN <<>> ELSE <<Head(s)>>)
             \o RemoveIllegal(Tail(s))

\* sanitize_filename::sanitize
Sanitize(s) ==
    LET t == RemoveIllegal(s) IN SubSeq(t, 1, Min(Len(t), NameMax))

\* Downloader::truncate_str_to_length, every grapheme of the model one byte
\* long: graphemes are appended while the output stays within max_length.
truncate_str_to_length(input, max_length) ==
    SubSeq(input, 1, Min(Len(input), max_length))

\* ------------------------------------------------------------ configuration

\* Config.cafe: cafe name -> CafeConfig.boards.  One board name starts with
\* '_', as the service's own board ids may.
ConfigCafes ==
    { [name |-> <<"c">>, boards |-> << <<"b">> >>],
      [name |-> <<"d">>, boards |-> << <<"_", "m">> >>] }

\* A board of the configuration: <<cafe name, board name>>.
RECURSIVE BoardsOf(_, _)
BoardsOf(cafe, k) ==
    IF k > Len(cafe.boards) THEN <<>>
    ELSE << <<cafe.name, cafe.boards[k]>> >> \o BoardsOf(cafe, k + 1)

AllBoards == UNION { Range(BoardsOf(c, 1)) : c \in ConfigCafes }

\* The orders in which iterating the HashMap Config.cafe can yield the cafes.
CafeOrders ==
    { o \in [1..Cardinality(ConfigCafes) -> ConfigCafes] :
          \A i, j \in DOMAIN o : i # j => o[i] # o[j] }

\* The boards in the order download_all and download_cafe visit them.
RECURSIVE BoardSequence(_, _)
BoardSequence(order, k) ==
    IF k > Len(order) THEN <<>>
    ELSE BoardsOf(order[k], 1) \o BoardSequence(order, k + 1)

\* --------------------------------------------------------------- responses

NotAuthenticated == "MCAFE_NOT_AUTHENTICATED"
DelAlready == "MCAFE_BBS_BULLETIN_READ_DELALREADY"
OtherCode == "MCAFE_OTHER"

Dates == { <<"2", "0", "2", "0", "0", "1", "0", "2", "1", "1">> }
ShortDates == { <<"2", "0", "2", "0">> }
CrawlTitles == { <<"x", "_", "y">> }

UrlA == <<"h", "/", "a">>
UrlB == <<"h", "/", "b">>
UrlA2 == <<"k", "/", "a">>

File(u) == [downurl |-> u, filetype |-> <<"j">>]

\* CafeApiResponse bodies without an exception code, as the crawl meets them:
\* a post with body text, without files or with one.
CrawlPosts ==
    { [exception |-> <<>>, date |-> <<d>>, name |-> <<t>>,
       content |-> <<"text">>, image_list |-> <<>>, addfiles |-> af] :
          d \in Dates, t \in CrawlTitles,
          af \in { <<>>, << <<File(UrlA)>> >> } }

NoPost ==
    [exception |-> <<>>, date |-> <<>>, name |-> <<>>, content |-> <<>>,
     image_list |-> <<>>, addfiles |-> <<>>]

\* Every body the per-post endpoint returns in the crawl.
CrawlResponses ==
    CrawlPosts
    \cup { [NoPost EXCEPT !.exception = <<e>>] :
               e \in {NotAuthenticated, DelAlready, OtherCode} }
    \cup { [p EXCEPT !.date = <<>>] : p \in CrawlPosts }
    \cup { [p EXCEPT !.name = <<>>] : p \in CrawlPosts }
    \cup { [p EXCEPT !.date = <<d>>] : p \in CrawlPosts, d \in ShortDates }

\* ------------------------------------------------------------------- state

VARIABLES
    run,              \* number of the current run of the program
    pc,               \* where the run is
    err,              \* the error the run ended with, "none" otherwise
    max_connections,  \* Config.max_connections
    todo,             \* boards still to scan in this run, the current one first
    first_id,         \* download_board's first_id
    latest_id,        \* download_board's latest_id
    id,               \* the loop variable of download_board
    dirs,             \* board -> its output directory
    scanLog,          \* history: boards scanned in this run, and how each ended
    fetchLog,         \* history: IDs fetched in this board scan, and their fate
    post,             \* download_post's post (the response being archived)
    prefix,           \* download_post's prefix
    tmp_name,         \* the file name of the tempdir
    scratch,          \* the files in the tempdir: name -> what was written
    next_file,        \* position of the addfile iterator (1-based, next to pull)
    attach_idx,       \* download_post's attach_idx
    inflight,         \* download_image futures in the buffer: file index -> name
    assigned,         \* history: file index -> the filename the closure gave it
    results           \* the collected download_image results: file index -> result

VARIABLES
    jar,                \* the text of cookies_file, <<>> when it cannot be read
    cache,              \* the text of cookies_file.current, <<>> when absent
    kakao_cookies,      \* get_cookies' kakao_cookies
    new_kakao_cookies,  \* get_cookies' new_kakao_cookies
    sso_token,          \* get_cookies' sso_token
    daum_cookies,       \* get_cookies' daum_cookies
    tokenLog,           \* history: the token requests of this run
    refreshLog,         \* history: the refreshes of this run, and how each ended
    ssoLog,             \* history: the tokens exchanged in this run
    set_cookie,         \* history: the Set-Cookie values the refresh received
    final_cookies,      \* history: update_kakao_coookies' final_cookies
    kakao_map           \* update_kakao_coookies' kakao_cookies argument

VARIABLES
    missingStreak,      \* the count of consecutive fetch failures (unbounded mode)
    streakLog           \* history: how each fetch of the unbounded scan ended

streakVars == <<missingStreak, streakLog>>

authVars ==
    <<jar, cache, kakao_cookies, new_kakao_cookies, sso_token, daum_cookies,
      tokenLog, refreshLog, ssoLog, set_cookie, final_cookies, kakao_map>>

vars ==
    <<run, pc, err, max_connections, todo, first_id, latest_id, id, dirs,
      scanLog, fetchLog, post, prefix, tmp_name, scratch, next_file, attach_idx,
      inflight, assigned, results, jar, cache, kakao_cookies, new_kakao_cookies,
      sso_token, daum_cookies, tokenLog, refreshLog, ssoLog, set_cookie,
      final_cookies, kakao_map, missingStreak, streakLog>>

crawlVars == <<todo, first_id, latest_id, id, scanLog, fetchLog>>
postVars ==
    <<post, prefix, tmp_name, scratch, next_file, attach_idx, inflight,
      assigned, results>>

\* A function with an empty domain.
Empty == [x \in {} |-> x]

\* -------------------------------------------------------------- directories

\* An output directory is absent (<<>>) or holds a set of entries (<<set>>).
\* An entry is [name, post, empty]: its file name, the ID of the post whose
\* staged files it holds, and whether it holds no file at all.
TmpPrefix == <<".", "t", "m", "p">>

\* tempdir(): a name no entry of the directory has.
FreshTmpName(entries) ==
    TmpPrefix
        \o Decimal(Cardinality({e \in entries :
                                    SubSeq(e.name, 1, Len(TmpPrefix)) = TmpPrefix}))

\* Some enumeration of a finite set, as fs::read_dir yields one.
RECURSIVE SeqOf(_)
SeqOf(S) ==
    IF S = {} THEN <<>>
    ELSE LET x == CHOOSE y \in S : TRUE IN <<x>> \o SeqOf(S \ {x})

Listing(dir) == IF dir = <<>> THEN <<>> ELSE <<SeqOf({e.name : e \in dir[1]})>>

\* The closure of get_first_id's filter_map: the entry name's fourth
\* '_'-separated field, parsed as usize.
EmbeddedId(name) ==
    LET field == Nth(Split(name, "_"), 3)
    IN  IF field = <<>> THEN <<>> ELSE ParseUsize(field[1])

\* Iterator::max over the Some results, unwrap_or(0).
RECURSIVE MaxEmbeddedId(_)
MaxEmbeddedId(names) ==
    IF Len(names) = 0 THEN 0
    ELSE LET rest == MaxEmbeddedId(Tail(names))
             got == EmbeddedId(Head(names))
         IN  IF got # <<>> /\ got[1] > rest THEN got[1] ELSE rest

\* Mutant of get_first_id: the entries are counted instead of their IDs
\* compared.
get_first_id_Count(path) ==
    IF path = <<>> THEN 1 ELSE Len(path[1]) + 1

\* Downloader::get_first_id: path is <<>> when it is no directory, <<names>>
\* (the listing) otherwise.
get_first_id(path) ==
    IF path = <<>> THEN 1 ELSE MaxEmbeddedId(path[1]) + 1

\* format!("{}_{}_{}_{:04}_{}", &date[..8], cafe_name, cafe_board, id,
\*         truncate_str_to_length(name, 100)), sanitized.
MakePrefix(date, cafe_name, cafe_board, n, name) ==
    Sanitize(SubSeq(date, 1, DateLen) \o <<"_">> \o cafe_name \o <<"_">>
             \o cafe_board \o <<"_">> \o FormatPadded(n, IdWidth) \o <<"_">>
             \o truncate_str_to_length(name, TitleMax))

\* get_latest_id's filter_map and max over the listed articles.
LatestOf(articles, board) ==
    LET ids == {a.dataid : a \in {x \in articles : x.board = board}}
    IN  IF ids = {} THEN <<>> ELSE <<Max(ids)>>

ArticlePool == {[dataid |-> k, board |-> b[2]] : k \in 1..MaxId, b \in AllBoards}

\* ---------------------------------------------------------- authentication

\* A string literal as the sequence of its characters.
Chars(s) == [i \in 1..Len(s) |-> SubSeq(s, i, i)]

\* [T]::join(sep)
RECURSIVE Join(_, _)
Join(segs, sep) ==
    IF Len(segs) = 0 THEN <<>>
    ELSE IF Len(segs) = 1 THEN segs[1]
    ELSE segs[1] \o sep \o Join(Tail(segs), sep)

Whitespace == {" ", "\t", "\n", "\r"}

\* str::trim
RECURSIVE TrimStart(_)
TrimStart(s) ==
    IF Len(s) > 0 /\ Head(s) \in Whitespace THEN TrimStart(Tail(s)) ELSE s

RECURSIVE TrimEnd(_)
TrimEnd(s) ==
    IF Len(s) > 0 /\ s[Len(s)] \in Whitespace
    THEN TrimEnd(SubSeq(s, 1, Len(s) - 1)) ELSE s

Trim(s) == TrimEnd(TrimStart(s))

\* The `.+?\t` groups of read_cookies_file's RE from position from on, k of
\* them, and a last `.+?$`: the tabs the lazy match ends its groups at, as
\* << tabs >>, or <<>> when the line has no match.
RECURSIVE LazyTabs(_, _, _)
LazyTabs(line, from, k) ==
    IF k = 0 THEN (IF from <= Len(line) THEN << <<>> >> ELSE <<>>)
    ELSE LET ok == {t \in (from + 1)..Len(line) :
                        line[t] = "\t" /\ LazyTabs(line, t + 1, k - 1) # <<>>}
         IN  IF ok = {} THEN <<>>
             ELSE LET t == CHOOSE x \in ok : \A y \in ok : x <= y
                  IN  << <<t>> \o LazyTabs(line, t + 1, k - 1)[1] >>

KakaoDomain == Chars(".kakao.com")

\* The number of `.+?\t` groups of RE after the domain: four fields and name.
JarGroups == 5

\* read_cookies_file's RE on one line: << "name=value" >>, or <<>> without a
\* match.
KakaoCookieOfLine(line) ==
    LET n == Len(KakaoDomain)
    IN  IF /\ Len(line) > n
           /\ SubSeq(line, 1, n) = KakaoDomain
           /\ line[n + 1] = "\t"
           /\ LazyTabs(line, n + 2, JarGroups) # <<>>
        THEN LET tabs == LazyTabs(line, n + 2, JarGroups)[1]
                 name == SubSeq(line, tabs[JarGroups - 1] + 1, tabs[JarGroups] - 1)
                 value == SubSeq(line, tabs[JarGroups] + 1, Len(line))
             IN  << name \o <<"=">> \o value >>
        ELSE <<>>

RECURSIVE KakaoCookiesOfLines(_)
KakaoCookiesOfLines(lines) ==
    IF Len(lines) = 0 THEN <<>>
    ELSE KakaoCookieOfLine(Head(lines)) \o KakaoCookiesOfLines(Tail(lines))

\* Mutant of read_cookies_file: the cookie jar is read first, the cache file
\* only when the jar cannot be read.
read_cookies_file_JarFirst(cookies_file, current_cookies_file) ==
    IF cookies_file # <<>>
    THEN << Join(KakaoCookiesOfLines(Split(cookies_file[1], "\n")),
                 <<";", " ">>) >>
    ELSE IF current_cookies_file # <<>> THEN << current_cookies_file[1] >>
    ELSE <<>>

\* Auth::read_cookies_file: Ok(text) as << text >>, Err as <<>>.
read_cookies_file(cookies_file, current_cookies_file) ==
    IF current_cookies_file # <<>> THEN << current_cookies_file[1] >>
    ELSE IF cookies_file = <<>> THEN <<>>
    ELSE << Join(KakaoCookiesOfLines(Split(cookies_file[1], "\n")),
                 <<";", " ">>) >>

Hex == Range(Digit) \cup {"a", "b", "c", "d", "e", "f"}

TokenKey == Chars("\"token\":")

\* get_sso_token's RE on the response text: << token >> of the leftmost
\* match, or <<>> without one.
ParseToken(resp) ==
    LET n == Len(TokenKey)
        \* the closing quote of a token whose opening quote is at j
        Close(j) == {k \in (j + 2)..Len(resp) :
                        /\ resp[k] = "\""
                        /\ \A x \in (j + 1)..(k - 1) : resp[x] \in Hex}
        \* the opening quotes `.*?"` can stop at after the key at i
        Open(i) == {j \in (i + n)..Len(resp) :
                        /\ resp[j] = "\""
                        /\ \A x \in (i + n)..(j - 1) : resp[x] # "\n"
                        /\ Close(j) # {}}
        starts == {i \in 1..(Len(resp) - n + 1) :
                        SubSeq(resp, i, i + n - 1) = TokenKey /\ Open(i) # {}}
    IN  IF starts = {} THEN <<>>
        ELSE LET i == CHOOSE x \in starts : \A y \in starts : x <= y
                 j == CHOOSE x \in Open(i) : \A y \in Open(i) : x <= y
                 k == CHOOSE x \in Close(j) : \A y \in Close(j) : x <= y
             IN  << SubSeq(resp, j + 1, k - 1) >>

\* Auth::get_sso_token on what the request gave: <<>> when send() or text()
\* failed, << text >> otherwise.
get_sso_token(resp) ==
    IF resp = <<>> THEN [ok |-> FALSE, err |-> "Transport", token |-> <<>>]
    ELSE IF ParseToken(resp[1]) = <<>>
    THEN [ok |-> FALSE, err |-> "Authentication", token |-> <<>>]
    ELSE [ok |-> TRUE, err |-> "none", token |-> ParseToken(resp[1])[1]]

\* collect::<HashMap<_, _>>() of (name, value) pairs: a later pair replaces an
\* earlier one of the same name.
RECURSIVE CollectMap(_)
CollectMap(pairs) ==
    IF Len(pairs) = 0 THEN Empty
    ELSE LET rest == CollectMap(SubSeq(pairs, 1, Len(pairs) - 1))
             last == pairs[Len(pairs)]
         IN  [k \in DOMAIN rest \cup {last[1]} |->
                  IF k = last[1] THEN last[2] ELSE rest[k]]

\* deserialize_cookies' filter_map on the segments between ';'.
RECURSIVE CookiePairs(_)
CookiePairs(segs) ==
    IF Len(segs) = 0 THEN <<>>
    ELSE LET cookie == Split(Head(segs), "=")
         IN  (IF Len(cookie) >= 2
              THEN << <<Trim(cookie[1]), Trim(cookie[2])>> >> ELSE <<>>)
                 \o CookiePairs(Tail(segs))

\* deserialize_cookies
deserialize_cookies(cookies) == CollectMap(CookiePairs(Split(cookies, ";")))

\* The orders a HashMap's iterator can give the keys of map in.
KeyOrders(map) ==
    {o \in [1..Cardinality(DOMAIN map) -> DOMAIN map] :
        \A i, j \in DOMAIN o : i # j => o[i] # o[j]}

\* serialize_cookies, the map iterated in order o.
serialize_cookies(map, o) ==
    Join([i \in DOMAIN o |-> o[i] \o <<"=">> \o map[o[i]]], <<";", " ">>)

\* update_kakao_coookies' filter_map on the Set-Cookie headers.
RECURSIVE HeaderPairs(_)
HeaderPairs(headers) ==
    IF Len(headers) = 0 THEN <<>>
    ELSE LET cookie == Split(Head(headers), ";")
         IN  << <<cookie[1], IF Len(cookie) >= 2 THEN cookie[2] ELSE <<>> >> >>
                 \o HeaderPairs(Tail(headers))

\* update_kakao_coookies' loop over new_cookies: a name the credential has
\* gets the new value, or is removed when the new value is empty.
MergeCookies(kakao, new_cookies) ==
    LET kept == {k \in DOMAIN kakao :
                    ~(k \in DOMAIN new_cookies /\ new_cookies[k] = <<>>)}
    IN  [k \in kept |-> IF k \in DOMAIN new_cookies THEN new_cookies[k]
                        ELSE kakao[k]]

\* cookies_file as the runs find it: unreadable, or a Netscape cookie jar.
JarTwo ==
    Chars(".kakao.com\tTRUE\t/\tTRUE\t0\ta\t1\n.daum.net\tTRUE\t/\tTRUE\t0\tz\t9\n.kakao.com\tTRUE\t/\tTRUE\t0\tb\t2\n")

JarOne == Chars("# Netscape HTTP Cookie File\n.kakao.com\tTRUE\t/\tTRUE\t0\ta\t1\n")

Jars == {<<>>, <<JarOne>>, <<JarTwo>>}

\* What the token request gives: no response text, or the text.
TokenText == Chars("loginByToken({\"token\":\"a1\"})")

NoTokenText == Chars("loginByToken({\"status\":-450})")

TokenResponses == {<<>>, <<TokenText>>, <<NoTokenText>>}

\* What the account-info request gives: no response, or the values of the
\* response's Set-Cookie headers.
AccountInfoResponses ==
    {<<>>, << <<>> >>, << <<Chars("a=7; Path=/")>> >>, << <<Chars("a;7")>> >>,
     << <<Chars("b")>> >>}

\* What the SSO exchange gives: no response, or the values of the response's
\* Set-Cookie headers.
DaumResponses == {<<>>, << <<>> >>, << <<Chars("d=1"), Chars("e=2")>> >>}

\* An Err that get_cookies returns: the run ends before any download.
AuthFail(e) ==
    /\ pc' = "failed"
    /\ err' = e

\* get_cookies up to the first token request: the client is built and the
\* credential read.
ReadCookiesFile ==
    /\ pc = "get_cookies"
    /\ \/ /\ AuthFail("ClientBuild")
          /\ UNCHANGED kakao_cookies
       \/ /\ read_cookies_file(jar, cache) = <<>>
          /\ AuthFail("ReadCookies")
          /\ UNCHANGED kakao_cookies
       \/ /\ read_cookies_file(jar, cache) # <<>>
          /\ kakao_cookies' = read_cookies_file(jar, cache)[1]
          /\ pc' = "get_sso_token"
          /\ UNCHANGED err
    /\ UNCHANGED <<jar, cache, new_kakao_cookies, sso_token, daum_cookies,
                   tokenLog, refreshLog, ssoLog, set_cookie, final_cookies, kakao_map>>
    /\ UNCHANGED <<run, max_connections, dirs>>
    /\ UNCHANGED crawlVars
    /\ UNCHANGED postVars
    /\ UNCHANGED streakVars

\* auth.get_sso_token(&kakao_cookies) and the match on its result.
GetSsoToken ==
    /\ pc = "get_sso_token"
    /\ \E resp \in TokenResponses :
           LET r == get_sso_token(resp)
           IN  /\ tokenLog' = Append(tokenLog,
                                     [cookies |-> kakao_cookies, ok |-> r.ok])
               /\ IF r.ok
                  THEN /\ sso_token' = r.token
                       /\ pc' = "get_daum_cookies"
                  ELSE /\ pc' = "update_kakao_coookies"
                       /\ UNCHANGED sso_token
    /\ UNCHANGED <<jar, cache, kakao_cookies, new_kakao_cookies, daum_cookies,
                   refreshLog, ssoLog, set_cookie, final_cookies, kakao_map>>
    /\ UNCHANGED <<run, err, max_connections, dirs>>
    /\ UNCHANGED crawlVars
    /\ UNCHANGED postVars
    /\ UNCHANGED streakVars

\* Mutant of WrittenCache: the credential of before the merge is written.
WrittenCache_Unmerged(cookies) == << kakao_cookies >>

\* The cache file after File::create and write_all(cookies.as_bytes()).
WrittenCache(cookies) == << cookies >>

\* Auth::update_kakao_coookies: the account-info request, the merge, and the
\* write of the cache file, which File::create empties before write_all.
UpdateKakaoCookies ==
    /\ pc = "update_kakao_coookies"
    /\ kakao_map' = deserialize_cookies(kakao_cookies)
    /\ \E resp \in AccountInfoResponses :
           IF resp = <<>>
           THEN /\ refreshLog' = Append(refreshLog, "Transport")
                /\ AuthFail("Transport")
                /\ UNCHANGED <<cache, new_kakao_cookies, set_cookie,
                               final_cookies>>
           ELSE /\ set_cookie' = resp[1]
                /\ final_cookies' =
                        MergeCookies(kakao_map',
                                     CollectMap(HeaderPairs(resp[1])))
                /\ \E o \in KeyOrders(final_cookies') :
                        LET cookies == serialize_cookies(final_cookies', o)
                        IN  \/ /\ refreshLog' = Append(refreshLog, "CacheCreate")
                               /\ AuthFail("CacheCreate")
                               /\ UNCHANGED <<cache, new_kakao_cookies>>
                            \/ /\ \E n \in 0..(Len(cookies) - 1) :
                                      cache' = << SubSeq(cookies, 1, n) >>
                               /\ refreshLog' = Append(refreshLog, "CacheWrite")
                               /\ AuthFail("CacheWrite")
                               /\ UNCHANGED new_kakao_cookies
                            \/ /\ cache' = WrittenCache(cookies)
                               /\ new_kakao_cookies' = cookies
                               /\ refreshLog' = Append(refreshLog, "ok")
                               /\ pc' = "get_sso_token_retry"
                               /\ UNCHANGED err
    /\ UNCHANGED <<jar, kakao_cookies, sso_token, daum_cookies, tokenLog, ssoLog>>
    /\ UNCHANGED <<run, max_connections, dirs>>
    /\ UNCHANGED crawlVars
    /\ UNCHANGED postVars
    /\ UNCHANGED streakVars

\* Mutant of OnRetryErr: a failed retry refreshes the credential again.
OnRetryErr_RefreshAgain == "update_kakao_coookies"

\* Where get_cookies goes when the retry returns Err: `?` returns it.
OnRetryErr == "failed"

\* auth.get_sso_token(&new_kakao_cookies) with its context and `?`.
RetrySsoToken ==
    /\ pc = "get_sso_token_retry"
    /\ \E resp \in TokenResponses :
           LET r == get_sso_token(resp)
           IN  /\ tokenLog' = Append(tokenLog,
                                     [cookies |-> new_kakao_cookies, ok |-> r.ok])
               /\ IF r.ok
                  THEN /\ sso_token' = r.token
                       /\ pc' = "get_daum_cookies"
                       /\ UNCHANGED err
                  ELSE /\ pc' = OnRetryErr
                       /\ err' = r.err
                       /\ UNCHANGED sso_token
    /\ UNCHANGED <<jar, cache, kakao_cookies, new_kakao_cookies, daum_cookies,
                   refreshLog, ssoLog, set_cookie, final_cookies, kakao_map>>
    /\ UNCHANGED <<run, max_connections, dirs>>
    /\ UNCHANGED crawlVars
    /\ UNCHANGED postVars
    /\ UNCHANGED streakVars

\* Auth::get_daum_cookies: the SSO exchange, and the join of its cookies.
GetDaumCookies ==
    /\ pc = "get_daum_cookies"
    /\ ssoLog' = Append(ssoLog, sso_token)
    /\ \E resp \in DaumResponses :
           IF resp = <<>>
           THEN /\ AuthFail("Transport")
                /\ UNCHANGED daum_cookies
           ELSE /\ daum_cookies' = Join(resp[1], <<";", " ">>)
                /\ pc' = "authenticated"
                /\ UNCHANGED err
    /\ UNCHANGED <<jar, cache, kakao_cookies, new_kakao_cookies, sso_token,
                   tokenLog, refreshLog, set_cookie, final_cookies, kakao_map>>
    /\ UNCHANGED <<run, max_connections, dirs>>
    /\ UNCHANGED crawlVars
    /\ UNCHANGED postVars
    /\ UNCHANGED streakVars

\* download: get_cookies has returned Ok, downloader::download is entered.
StartDownload ==
    /\ pc = "authenticated"
    /\ pc' = "download_all"
    /\ UNCHANGED authVars
    /\ UNCHANGED streakVars
    /\ UNCHANGED <<run, err, max_connections, dirs>>
    /\ UNCHANGED crawlVars
    /\ UNCHANGED postVars

\* The program is started again after get_cookies failed, or after the
\* download it led to; the cookie jar and the cache file outlive the run.
AuthNewRun ==
    /\ pc \in {"failed", "download_all"}
    /\ run < MaxRuns
    /\ run' = run + 1
    /\ pc' = "get_cookies"
    /\ err' = "none"
    /\ kakao_cookies' = <<>>
    /\ new_kakao_cookies' = <<>>
    /\ sso_token' = <<>>
    /\ daum_cookies' = <<>>
    /\ tokenLog' = <<>>
    /\ refreshLog' = <<>>
    /\ ssoLog' = <<>>
    /\ set_cookie' = <<>>
    /\ final_cookies' = Empty
    /\ kakao_map' = Empty
    /\ UNCHANGED <<jar, cache, max_connections, dirs>>
    /\ UNCHANGED crawlVars
    /\ UNCHANGED postVars
    /\ UNCHANGED streakVars

\* Between two runs the cache file is deleted.
DeleteCache ==
    /\ pc \in {"failed", "download_all"}
    /\ cache # <<>>
    /\ cache' = <<>>
    /\ UNCHANGED <<jar, kakao_cookies, new_kakao_cookies, sso_token,
                   daum_cookies, tokenLog, refreshLog, ssoLog, set_cookie,
                   final_cookies, kakao_map>>
    /\ UNCHANGED <<run, pc, err, max_connections, dirs>>
    /\ UNCHANGED crawlVars
    /\ UNCHANGED postVars
    /\ UNCHANGED streakVars

\* Between two runs cookies_file is replaced (or removed).
ReplaceJar ==
    /\ pc \in {"failed", "download_all"}
    /\ jar' \in Jars \ {jar}
    /\ UNCHANGED <<cache, kakao_cookies, new_kakao_cookies, sso_token,
                   daum_cookies, tokenLog, refreshLog, ssoLog, set_cookie,
                   final_cookies, kakao_map>>
    /\ UNCHANGED <<run, pc, err, max_connections, dirs>>
    /\ UNCHANGED crawlVars
    /\ UNCHANGED postVars
    /\ UNCHANGED streakVars

\* The state get_cookies leaves when the first token request succeeds: the
\* state of the credentials as downloader::download is entered.
AuthDone ==
    /\ jar = <<JarTwo>>
    /\ cache = <<>>
    /\ kakao_cookies = read_cookies_file(<<JarTwo>>, <<>>)[1]
    /\ new_kakao_cookies = <<>>
    /\ sso_token = get_sso_token(<<TokenText>>).token
    /\ daum_cookies = Chars("d=1; e=2")
    /\ tokenLog = << [cookies |-> read_cookies_file(<<JarTwo>>, <<>>)[1],
                      ok |-> TRUE] >>
    /\ refreshLog = <<>>
    /\ ssoLog = << get_sso_token(<<TokenText>>).token >>
    /\ set_cookie = <<>>
    /\ final_cookies = Empty
    /\ kakao_map = Empty

\* ------------------------------------------------------------------ crawl

Cur == todo[1]

Entries(b) == IF dirs[b] = <<>> THEN {} ELSE dirs[b][1]

SetLast(log, st) == [log EXCEPT ![Len(log)].st = st]

ResetPost ==
    /\ post' = NoPost
    /\ prefix' = <<>>
    /\ tmp_name' = <<>>
    /\ scratch' = Empty
    /\ next_file' = 1
    /\ attach_idx' = 0
    /\ inflight' = Empty
    /\ assigned' = Empty
    /\ results' = Empty

\* An Err that reaches main: the run ends, and every log's open item failed.
Fail(e) ==
    /\ pc' = "failed"
    /\ err' = e
    /\ scanLog' = IF Len(scanLog) > 0 THEN SetLast(scanLog, "failed") ELSE scanLog
    /\ fetchLog' = IF Len(fetchLog) > 0 /\ fetchLog[Len(fetchLog)].st = "posting"
                   THEN SetLast(fetchLog, "failed") ELSE fetchLog

\* A panic (an unwrap on Err, a slice out of range): the run ends.
Panic(e) ==
    /\ pc' = "panicked"
    /\ err' = e
    /\ scanLog' = IF Len(scanLog) > 0 THEN SetLast(scanLog, "failed") ELSE scanLog
    /\ fetchLog' = IF Len(fetchLog) > 0 /\ fetchLog[Len(fetchLog)].st = "posting"
                   THEN SetLast(fetchLog, "failed") ELSE fetchLog

\* download_all and download_cafe: the boards of every cafe, in HashMap order.
DownloadAll ==
    /\ pc = "download_all"
    /\ UNCHANGED authVars
    /\ UNCHANGED streakVars
    /\ \E order \in CafeOrders : todo' = BoardSequence(order, 1)
    /\ pc' = "board"
    /\ UNCHANGED <<run, err, max_connections, first_id, latest_id, id, dirs,
                   scanLog, fetchLog>>
    /\ UNCHANGED postVars

\* download_all returns Ok once every board is done.
AllDone ==
    /\ pc = "board"
    /\ UNCHANGED authVars
    /\ UNCHANGED streakVars
    /\ todo = <<>>
    /\ pc' = "done"
    /\ UNCHANGED <<run, err, max_connections, dirs>>
    /\ UNCHANGED crawlVars
    /\ UNCHANGED postVars

\* download_board up to get_first_id: create_dir_all, then the first ID.
BoardBegin ==
    /\ pc = "board"
    /\ UNCHANGED authVars
    /\ UNCHANGED streakVars
    /\ todo # <<>>
    /\ \/ /\ dirs' = [dirs EXCEPT ![Cur] = <<Entries(Cur)>>]
          /\ first_id' = get_first_id(Listing(dirs'[Cur]))
          /\ pc' = "latest"
          /\ scanLog' = Append(scanLog, [board |-> Cur, st |-> "scanning"])
          /\ fetchLog' = <<>>
          /\ UNCHANGED err
       \/ /\ pc' = "failed"
          /\ err' = "Io"
          /\ scanLog' = Append(scanLog, [board |-> Cur, st |-> "failed"])
          /\ fetchLog' = <<>>
          /\ UNCHANGED <<dirs, first_id>>
    /\ UNCHANGED <<run, max_connections, todo, latest_id, id>>
    /\ UNCHANGED postVars

\* get_latest_id, and the start of the loop for id in first_id..=latest_id.
GetLatestId ==
    /\ pc = "latest"
    /\ UNCHANGED authVars
    /\ UNCHANGED streakVars
    /\ \/ \E articles \in SUBSET ArticlePool :
             LET latest == LatestOf(articles, Cur[2])
             IN  IF latest = <<>>
                 THEN /\ Fail("APILatestArticleException")
                      /\ UNCHANGED <<latest_id, id>>
                 ELSE /\ latest_id' = latest[1]
                      /\ id' = first_id
                      /\ pc' = "fetch"
                      /\ UNCHANGED <<err, scanLog, fetchLog>>
       \/ /\ Fail("Transport")
          /\ UNCHANGED <<latest_id, id>>
    /\ UNCHANGED <<run, max_connections, todo, first_id, dirs>>
    /\ UNCHANGED postVars

\* Mutant of InRange: the loop runs one ID past the ceiling.
InRange_PastCeiling(n, latest) == n <= latest + 1

\* The loop condition of for id in first_id..=latest_id.
InRange(n, latest) == n <= latest

\* The range first_id..=latest_id is exhausted: download_board returns Ok.
BoardEnd ==
    /\ pc = "fetch"
    /\ UNCHANGED authVars
    /\ UNCHANGED streakVars
    /\ ~ InRange(id, latest_id)
    /\ todo' = Tail(todo)
    /\ scanLog' = SetLast(scanLog, "ended")
    /\ pc' = "board"
    /\ UNCHANGED <<run, err, max_connections, first_id, latest_id, id, dirs,
                   fetchLog>>
    /\ UNCHANGED postVars

\* An item of fetchLog: the ID, its fate (posting, published, skipped or
\* failed), what the request got (a decoded body, or the failure of send or
\* json), and of a body its exception code and which required fields it has.
Logged(n, st, got, resp) ==
    [id |-> n, st |-> st, got |-> got, exception |-> resp.exception,
     date |-> resp.date # <<>>, name |-> resp.name # <<>>]

\* Mutant of Classify: an unexpected exception code is skipped like a
\* deleted post.
Classify_SkipsOther(resp) ==
    IF resp.exception # <<>>
    THEN CASE resp.exception[1] = NotAuthenticated -> "NotAuthenticatedException"
           [] OTHER -> "continue"
    ELSE IF resp.date = <<>> THEN "APIDateMissing"
    ELSE IF resp.name = <<>> THEN "APINameMissing"
    ELSE IF Len(resp.date[1]) < DateLen THEN "SliceOutOfRange"
    ELSE "Ok"

\* Mutant of Classify: the deleted code is an error like any other code.
Classify_DeletedFatal(resp) ==
    IF resp.exception # <<>>
    THEN CASE resp.exception[1] = NotAuthenticated -> "NotAuthenticatedException"
           [] OTHER -> "APIException"
    ELSE IF resp.date = <<>> THEN "APIDateMissing"
    ELSE IF resp.name = <<>> THEN "APINameMissing"
    ELSE IF Len(resp.date[1]) < DateLen THEN "SliceOutOfRange"
    ELSE "Ok"

\* What download_board makes of a decoded response: the match on the
\* exception code, then the two required fields, then &date[..8].
Classify(resp) ==
    IF resp.exception # <<>>
    THEN CASE resp.exception[1] = NotAuthenticated -> "NotAuthenticatedException"
           [] resp.exception[1] = DelAlready -> "continue"
           [] OTHER -> "APIException"
    ELSE IF resp.date = <<>> THEN "APIDateMissing"
    ELSE IF resp.name = <<>> THEN "APINameMissing"
    ELSE IF Len(resp.date[1]) < DateLen THEN "SliceOutOfRange"
    ELSE "Ok"

\* One iteration of the loop up to the call of download_post: the request
\* (send and json, either may fail), the check of the response, the prefix.
FetchPost ==
    /\ pc = "fetch"
    /\ UNCHANGED authVars
    /\ UNCHANGED streakVars
    /\ InRange(id, latest_id)
    /\ \/ \E why \in {"Transport", "Decode"} :
             /\ pc' = "failed"
             /\ err' = why
             /\ scanLog' = SetLast(scanLog, "failed")
             /\ fetchLog' = Append(fetchLog, Logged(id, "failed", why, NoPost))
             /\ UNCHANGED <<id, post, prefix>>
       \/ \E resp \in CrawlResponses :
             LET class == Classify(resp)
             IN  CASE class = "continue" ->
                        /\ id' = id + 1
                        /\ fetchLog' = Append(fetchLog,
                               Logged(id, "skipped", "Body", resp))
                        /\ UNCHANGED <<pc, err, scanLog, post, prefix>>
                   [] class = "Ok" ->
                        /\ post' = resp
                        /\ prefix' = MakePrefix(resp.date[1], Cur[1], Cur[2], id,
                                                resp.name[1])
                        /\ pc' = "tempdir"
                        /\ fetchLog' = Append(fetchLog,
                               Logged(id, "posting", "Body", resp))
                        /\ UNCHANGED <<id, err, scanLog>>
                   [] OTHER ->
                        /\ pc' = IF class = "SliceOutOfRange" THEN "panicked"
                                 ELSE "failed"
                        /\ err' = class
                        /\ scanLog' = SetLast(scanLog, "failed")
                        /\ fetchLog' = Append(fetchLog,
                               Logged(id, "failed", "Body", resp))
                        /\ UNCHANGED <<id, post, prefix>>
    /\ UNCHANGED <<run, max_connections, todo, first_id, latest_id, dirs,
                   tmp_name, scratch, next_file, attach_idx, inflight, assigned,
                   results>>

\* ----------------------------------------------------------- download_post

\* post.addfiles, or EMPTY_ADDFILES.
AddFiles(p) == IF p.addfiles = <<>> THEN <<>> ELSE p.addfiles[1]

\* get_url_basename: the last segment of u.split('/').
get_url_basename(u) == LET segs == Split(u, "/") IN segs[Len(segs)]

\* Mutant of real_idx: the last entry of image_list with the basename.
real_idx_Last(p, image) ==
    IF p.image_list = <<>> THEN <<>>
    ELSE LET hits == {k \in 1..Len(p.image_list[1]) :
                          get_url_basename(p.image_list[1][k])
                              = get_url_basename(image.downurl)}
         IN  IF hits = {} THEN <<>>
             ELSE <<(CHOOSE k \in hits : \A j \in hits : k >= j) - 1>>

\* image_list.iter().position(..): the zero-based index of the first entry of
\* image_list with the basename of the file's URL.
real_idx(p, image) ==
    IF p.image_list = <<>> THEN <<>>
    ELSE LET hits == {k \in 1..Len(p.image_list[1]) :
                          get_url_basename(p.image_list[1][k])
                              = get_url_basename(image.downurl)}
         IN  IF hits = {} THEN <<>>
             ELSE <<(CHOOSE k \in hits : \A j \in hits : k <= j) - 1>>

ImgName(pre, idx, filetype) ==
    pre \o <<"_", "i", "m", "g">> \o FormatPadded(idx + 1, AssetWidth)
        \o <<".">> \o filetype

AttachName(pre, idx, filetype) ==
    pre \o <<"_", "a", "t", "t", "a", "c", "h">>
        \o FormatPadded(idx, AssetWidth) \o <<".">> \o filetype

TxtName(pre) == pre \o <<".", "t", "x", "t">>

\* An Err returned by download_post: the TempDir is dropped with its files.
PostFail(e) ==
    /\ Fail(e)
    /\ scratch' = Empty

\* tempdir()
CreateScratch ==
    /\ pc = "tempdir"
    /\ UNCHANGED authVars
    /\ UNCHANGED streakVars
    /\ \/ /\ tmp_name' = FreshTmpName(Entries(Cur))
          /\ pc' = "assets"
          /\ UNCHANGED <<err, scanLog, fetchLog>>
       \/ /\ Fail("Io")
          /\ UNCHANGED tmp_name
    /\ UNCHANGED <<run, max_connections, todo, first_id, latest_id, id, dirs,
                   post, prefix, scratch, next_file, attach_idx, inflight,
                   assigned, results>>

\* Mutant of BufferHasRoom: the buffer takes one future more than the limit.
BufferHasRoom_OneMore == Cardinality(DOMAIN inflight) <= max_connections

\* buffer_unordered(max_connections): the buffer takes another future.
BufferHasRoom == Cardinality(DOMAIN inflight) < max_connections

\* Mutant of NextAttachIdx: the index is taken from the downloads that have
\* completed so far.
NextAttachIdx_ByCompletion == Cardinality(DOMAIN results) + 1

\* attach_idx += 1
NextAttachIdx == attach_idx + 1

\* The closure's filename for the file it is called with.
AssetFileName(p, pre, image) ==
    LET idx == real_idx(p, image)
    IN  IF idx # <<>> THEN ImgName(pre, idx[1], image.filetype)
        ELSE AttachName(pre, NextAttachIdx, image.filetype)

\* buffer_unordered pulls the next item of the mapped iterator while fewer
\* than max_connections futures are in the buffer; pulling runs the closure,
\* which names the file and calls download_image.
StartAsset ==
    /\ pc = "assets"
    /\ UNCHANGED authVars
    /\ UNCHANGED streakVars
    /\ next_file <= Len(AddFiles(post))
    /\ BufferHasRoom
    /\ LET image == AddFiles(post)[next_file]
       IN  /\ attach_idx' = IF real_idx(post, image) # <<>> THEN attach_idx
                            ELSE NextAttachIdx
           /\ inflight' =
                  [i \in DOMAIN inflight \cup {next_file} |->
                      IF i \in DOMAIN inflight THEN inflight[i]
                      ELSE AssetFileName(post, prefix, image)]
           /\ assigned' =
                  [i \in DOMAIN assigned \cup {next_file} |->
                      IF i \in DOMAIN assigned THEN assigned[i]
                      ELSE AssetFileName(post, prefix, image)]
    /\ next_file' = next_file + 1
    /\ UNCHANGED <<run, pc, err, max_connections, dirs, post, prefix, tmp_name,
                   scratch, results>>
    /\ UNCHANGED crawlVars

\* What File::create and write_all leave at a name of the tempdir.
WriteFile(files, name, what) ==
    [n \in DOMAIN files \cup {name} |-> IF n = name THEN what ELSE files[n]]

\* One download_image future completes: Ok with the file written, or Err
\* with no file (the request failed) or a file cut short (write_all failed).
FinishAsset ==
    /\ pc = "assets"
    /\ UNCHANGED authVars
    /\ UNCHANGED streakVars
    /\ \E i \in DOMAIN inflight :
          /\ inflight' = [j \in DOMAIN inflight \ {i} |-> inflight[j]]
          /\ \/ /\ scratch' = WriteFile(scratch, inflight[i],
                                        [src |-> i, whole |-> TRUE])
                /\ results' = [j \in DOMAIN results \cup {i} |->
                                  IF j = i THEN "Ok" ELSE results[j]]
             \/ /\ \/ scratch' = scratch
                   \/ scratch' = WriteFile(scratch, inflight[i],
                                           [src |-> i, whole |-> FALSE])
                /\ results' = [j \in DOMAIN results \cup {i} |->
                                  IF j = i THEN "Err" ELSE results[j]]
    /\ UNCHANGED <<run, pc, err, max_connections, dirs, post, prefix, tmp_name,
                   next_file, attach_idx, assigned>>
    /\ UNCHANGED crawlVars

\* The stream has ended (the iterator is exhausted and the buffer is empty;
\* with max_connections = 0 the buffer never polls the iterator and the
\* stream never ends) and the results are dropped; then the body text is
\* written when the post has some.
WriteText ==
    /\ pc = "assets"
    /\ UNCHANGED authVars
    /\ UNCHANGED streakVars
    /\ max_connections > 0
    /\ next_file > Len(AddFiles(post))
    /\ DOMAIN inflight = {}
    /\ \/ /\ scratch' = IF post.content = <<>> THEN scratch
                        ELSE WriteFile(scratch, TxtName(prefix),
                                       [src |-> 0, whole |-> TRUE])
          /\ pc' = "copy"
          /\ UNCHANGED <<err, scanLog, fetchLog>>
       \/ /\ post.content # <<>>
          /\ PostFail("Io")
    /\ UNCHANGED <<run, max_connections, todo, first_id, latest_id, id, dirs,
                   post, prefix, tmp_name, next_file, attach_idx, inflight,
                   assigned, results>>

\* fs_extra::dir::copy(tempdir, parent of the final path).unwrap(): the copy
\* is named as the tempdir; a failed copy panics and may leave a part of it.
CopyScratch ==
    /\ pc = "copy"
    /\ UNCHANGED authVars
    /\ UNCHANGED streakVars
    /\ LET copy == [name |-> tmp_name, post |-> id,
                    empty |-> DOMAIN scratch = {}]
       IN  \/ /\ dirs' = [dirs EXCEPT ![Cur] = <<Entries(Cur) \cup {copy}>>]
              /\ pc' = "rename"
              /\ UNCHANGED <<err, scanLog, fetchLog, scratch>>
           \/ /\ \/ dirs' = dirs
                 \/ dirs' = [dirs EXCEPT ![Cur] = <<Entries(Cur) \cup {copy}>>]
              /\ Panic("CopyFailed")
              /\ scratch' = Empty
    /\ UNCHANGED <<run, max_connections, todo, first_id, latest_id, id, post,
                   prefix, tmp_name, next_file, attach_idx, inflight, assigned,
                   results>>

\* Mutant of Renamed: the publish copies to the final name and leaves the
\* scratch-named directory where it is.
Renamed_KeepsCopy(entries, from, to) ==
    {e \in entries : e.name # to}
        \cup {[e EXCEPT !.name = to] : e \in {x \in entries : x.name = from}}

\* What a successful fs::rename(parent/tmp_name, path) makes of the entries:
\* the copy takes the final name, replacing an empty directory of that name.
Renamed(entries, from, to) ==
    {e \in entries : e.name # from /\ e.name # to}
        \cup {[e EXCEPT !.name = to] : e \in {x \in entries : x.name = from}}

\* fs::rename(..).unwrap(): fails when a non-empty directory has the final
\* name, and may fail otherwise; a failure panics and the copy stays.
RenameToFinal ==
    /\ pc = "rename"
    /\ UNCHANGED authVars
    /\ UNCHANGED streakVars
    /\ \/ /\ ~ \E e \in Entries(Cur) : e.name = prefix /\ ~ e.empty
          /\ dirs' = [dirs EXCEPT ![Cur] = <<Renamed(Entries(Cur), tmp_name, prefix)>>]
          /\ pc' = "posted"
          /\ fetchLog' = SetLast(fetchLog, "published")
          /\ UNCHANGED <<err, scanLog, scratch>>
       \/ /\ Panic("RenameFailed")
          /\ scratch' = Empty
          /\ UNCHANGED dirs
    /\ UNCHANGED <<run, max_connections, todo, first_id, latest_id, id, post,
                   prefix, tmp_name, next_file, attach_idx, inflight, assigned,
                   results>>

\* download_post returns Ok (the TempDir is dropped) and the loop goes on.
PostDone ==
    /\ pc = "posted"
    /\ UNCHANGED authVars
    /\ UNCHANGED streakVars
    /\ id' = id + 1
    /\ pc' = "fetch"
    /\ ResetPost
    /\ UNCHANGED <<run, err, max_connections, todo, first_id, latest_id, dirs,
                   scanLog, fetchLog>>

\* The program is started again; only the directories outlive a run.
NewRun ==
    /\ pc \in {"done", "failed", "panicked"}
    /\ UNCHANGED authVars
    /\ UNCHANGED streakVars
    /\ run < MaxRuns
    /\ run' = run + 1
    /\ pc' = "download_all"
    /\ err' = "none"
    /\ todo' = <<>>
    /\ first_id' = 0
    /\ latest_id' = 0
    /\ id' = 0
    /\ scanLog' = <<>>
    /\ fetchLog' = <<>>
    /\ ResetPost
    /\ UNCHANGED <<max_connections, dirs>>

\* The state as downloader::download is entered in the first run.
Init ==
    /\ run = 1
    /\ pc = "download_all"
    /\ err = "none"
    /\ max_connections = DefaultMaxConnections
    /\ todo = <<>>
    /\ first_id = 0
    /\ latest_id = 0
    /\ id = 0
    /\ dirs = [b \in AllBoards |-> <<>>]
    /\ scanLog = <<>>
    /\ fetchLog = <<>>
    /\ post = NoPost
    /\ prefix = <<>>
    /\ tmp_name = <<>>
    /\ scratch = Empty
    /\ next_file = 1
    /\ attach_idx = 0
    /\ inflight = Empty
    /\ assigned = Empty
    /\ results = Empty
    /\ AuthDone
    /\ missingStreak = 0
    /\ streakLog = <<>>

Next ==
    \/ DownloadAll
    \/ AllDone
    \/ BoardBegin
    \/ GetLatestId
    \/ BoardEnd
    \/ FetchPost
    \/ CreateScratch
    \/ StartAsset
    \/ FinishAsset
    \/ WriteText
    \/ CopyScratch
    \/ RenameToFinal
    \/ PostDone
    \/ NewRun

Spec == Init /\ [][Next]_vars

\* ------------------------------------------------ authentication on its own

\* The state as get_cookies is entered in the first run: no cache file yet.
InitAuth ==
    /\ run = 1
    /\ pc = "get_cookies"
    /\ err = "none"
    /\ max_connections = DefaultMaxConnections
    /\ todo = <<>>
    /\ first_id = 0
    /\ latest_id = 0
    /\ id = 0
    /\ dirs = [b \in AllBoards |-> <<>>]
    /\ scanLog = <<>>
    /\ fetchLog = <<>>
    /\ post = NoPost
    /\ prefix = <<>>
    /\ tmp_name = <<>>
    /\ scratch = Empty
    /\ next_file = 1
    /\ attach_idx = 0
    /\ inflight = Empty
    /\ assigned = Empty
    /\ results = Empty
    /\ jar \in Jars
    /\ cache = <<>>
    /\ kakao_cookies = <<>>
    /\ new_kakao_cookies = <<>>
    /\ sso_token = <<>>
    /\ daum_cookies = <<>>
    /\ tokenLog = <<>>
    /\ refreshLog = <<>>
    /\ ssoLog = <<>>
    /\ set_cookie = <<>>
    /\ final_cookies = Empty
    /\ kakao_map = Empty
    /\ missingStreak = 0
    /\ streakLog = <<>>

NextAuth ==
    \/ ReadCookiesFile
    \/ GetSsoToken
    \/ UpdateKakaoCookies
    \/ RetrySsoToken
    \/ GetDaumCookies
    \/ StartDownload
    \/ AuthNewRun
    \/ DeleteCache
    \/ ReplaceJar

SpecAuth == InitAuth /\ [][NextAuth]_vars

\* ------------------------------------------- download_post on its own inputs

PostUrls == {UrlA, UrlB}

\* The sequences over S of length at most n.
SeqsUpTo(S, n) == UNION {[1..k -> S] : k \in 0..n}

\* post.image_list: None, or a list; two of its URLs share the basename "a".
ImageLists ==
    { <<>>, << <<>> >>, << <<UrlB, UrlA>> >>, << <<UrlA2, UrlA>> >> }

\* The posts download_post is checked on.
PostPool ==
    { [exception |-> <<>>, date |-> <<d>>, name |-> <<t>>, content |-> c,
       image_list |-> im, addfiles |-> af] :
          d \in Dates, t \in CrawlTitles, c \in { <<>>, <<"text">> },
          im \in ImageLists,
          af \in { <<>> } \cup
                 { <<[k \in DOMAIN us |-> File(us[k])]>> :
                       us \in SeqsUpTo(PostUrls, MaxFiles) } }

PostBoard == << <<"c">>, <<"b">> >>

\* download_post is entered for post 1 of the first board, with any post of
\* the pool and any max_connections.
InitPost ==
    /\ run = 1
    /\ pc = "tempdir"
    /\ err = "none"
    /\ max_connections \in 0..MaxConn
    /\ todo = << PostBoard, << <<"d">>, <<"_", "m">> >> >>
    /\ first_id = 1
    /\ latest_id = 1
    /\ id = 1
    /\ dirs = [b \in AllBoards |-> IF b = PostBoard THEN << {} >> ELSE <<>>]
    /\ scanLog = << [board |-> PostBoard, st |-> "scanning"] >>
    /\ post \in PostPool
    /\ fetchLog = << Logged(1, "posting", "Body", post) >>
    /\ prefix = MakePrefix(post.date[1], PostBoard[1], PostBoard[2], 1,
                           post.name[1])
    /\ tmp_name = <<>>
    /\ scratch = Empty
    /\ next_file = 1
    /\ attach_idx = 0
    /\ inflight = Empty
    /\ assigned = Empty
    /\ results = Empty
    /\ AuthDone
    /\ missingStreak = 0
    /\ streakLog = <<>>

NextPost ==
    \/ CreateScratch
    \/ StartAsset
    \/ FinishAsset
    \/ WriteText
    \/ CopyScratch
    \/ RenameToFinal
    \/ PostDone

SpecPost == InitPost /\ [][NextPost]_vars

\* The executor polls the stream whenever it can make progress, and every
\* request ends, with a response or an error.
FairPost == SpecPost /\ WF_vars(StartAsset) /\ WF_vars(FinishAsset)

\* ------------------------------------- the unbounded scan, from the spec
\* download_board stops at latest_id only.  The scan that stops on a streak of
\* failures is modelled from the specification's CrawlCursor and PostFetcher.

\* The streak of consecutive fetch failures that stops a board.
MissingStreakLimit == 5

\* How a fetch ends for the stop policy: a post that is published, a soft
\* miss (the deleted code), a miss (another exception code, a decode failure,
\* a missing field), or the fatal not-authenticated code.
StreakOutcomes == {"post", "soft", "miss", "fatal"}

\* Mutant of StreakAfterSuccess: a success leaves the streak as it is.
StreakAfterSuccess_Keeps == missingStreak

\* The streak after a successful fetch.
StreakAfterSuccess == 0

\* One fetch of the unbounded scan, and the cursor's move to the next ID.
StreakFetch ==
    /\ pc = "streak_scan"
    /\ missingStreak < MissingStreakLimit
    /\ Len(streakLog) < MaxStreakFetches
    /\ \E o \in StreakOutcomes :
           /\ streakLog' = Append(streakLog, [id |-> id, outcome |-> o])
           /\ CASE o = "post" ->
                       /\ missingStreak' = StreakAfterSuccess
                       /\ id' = id + 1
                       /\ UNCHANGED <<pc, err>>
                [] o = "soft" ->
                       /\ id' = id + 1
                       /\ UNCHANGED <<pc, err, missingStreak>>
                [] o = "miss" ->
                       /\ missingStreak' = missingStreak + 1
                       /\ id' = id + 1
                       /\ UNCHANGED <<pc, err>>
                [] o = "fatal" ->
                       /\ pc' = "failed"
                       /\ err' = "NotAuthorized"
                       /\ UNCHANGED <<id, missingStreak>>
    /\ UNCHANGED <<run, max_connections, todo, first_id, latest_id, dirs,
                   scanLog, fetchLog>>
    /\ UNCHANGED postVars
    /\ UNCHANGED authVars

\* The streak has reached the limit: the board's scan halts without error.
StreakHalt ==
    /\ pc = "streak_scan"
    /\ missingStreak >= MissingStreakLimit
    /\ pc' = "streak_halted"
    /\ UNCHANGED <<run, err, max_connections, dirs>>
    /\ UNCHANGED crawlVars
    /\ UNCHANGED postVars
    /\ UNCHANGED authVars
    /\ UNCHANGED streakVars

\* The scan of a board in unbounded mode, from the first ID on.
InitStreak ==
    /\ run = 1
    /\ pc = "streak_scan"
    /\ err = "none"
    /\ max_connections = DefaultMaxConnections
    /\ todo = << PostBoard >>
    /\ first_id \in 1..MaxId
    /\ latest_id = 0
    /\ id = first_id
    /\ dirs = [b \in AllBoards |-> <<>>]
    /\ scanLog = << [board |-> PostBoard, st |-> "scanning"] >>
    /\ fetchLog = <<>>
    /\ post = NoPost
    /\ prefix = <<>>
    /\ tmp_name = <<>>
    /\ scratch = Empty
    /\ next_file = 1
    /\ attach_idx = 0
    /\ inflight = Empty
    /\ assigned = Empty
    /\ results = Empty
    /\ AuthDone
    /\ missingStreak = 0
    /\ streakLog = <<>>

NextStreak ==
    \/ StreakFetch
    \/ StreakHalt

SpecStreak == InitStreak /\ [][NextStreak]_vars

\* ------------------------------------- the credential codec on its own inputs

\* Cookie values a credential can hold: plain, empty, containing '=' (as
\* base64 padding does), and with a leading space.
CookieValues == {Chars("1"), Chars("2"), <<>>, Chars("x=y"), Chars(" 1")}

\* The credentials serialize_cookies is applied to: maps with unique names.
Credentials ==
    UNION {[N -> CookieValues] : N \in SUBSET {Chars("a"), Chars("b")}}

\* A credential as update_kakao_coookies holds it before serializing it.
InitCodec ==
    /\ run = 1
    /\ pc = "serialize_cookies"
    /\ err = "none"
    /\ max_connections = DefaultMaxConnections
    /\ todo = <<>>
    /\ first_id = 0
    /\ latest_id = 0
    /\ id = 0
    /\ dirs = [b \in AllBoards |-> <<>>]
    /\ scanLog = <<>>
    /\ fetchLog = <<>>
    /\ post = NoPost
    /\ prefix = <<>>
    /\ tmp_name = <<>>
    /\ scratch = Empty
    /\ next_file = 1
    /\ attach_idx = 0
    /\ inflight = Empty
    /\ assigned = Empty
    /\ results = Empty
    /\ jar = <<>>
    /\ cache = <<>>
    /\ kakao_cookies = <<>>
    /\ new_kakao_cookies = <<>>
    /\ sso_token = <<>>
    /\ daum_cookies = <<>>
    /\ tokenLog = <<>>
    /\ refreshLog = <<>>
    /\ ssoLog = <<>>
    /\ set_cookie = <<>>
    /\ final_cookies \in Credentials
    /\ kakao_map = Empty
    /\ missingStreak = 0
    /\ streakLog = <<>>

\* serialize_cookies(&final_cookies), written to current_cookies_file.
SerializeCookies ==
    /\ pc = "serialize_cookies"
    /\ \E o \in KeyOrders(final_cookies) :
           new_kakao_cookies' = serialize_cookies(final_cookies, o)
    /\ cache' = << new_kakao_cookies' >>
    /\ pc' = "deserialize_cookies"
    /\ UNCHANGED <<run, err, max_connections, dirs, jar, kakao_cookies,
                   sso_token, daum_cookies, tokenLog, refreshLog, ssoLog,
                   set_cookie, final_cookies, kakao_map>>
    /\ UNCHANGED crawlVars
    /\ UNCHANGED postVars
    /\ UNCHANGED streakVars

\* The next run reads the file back and passes
\* deserialize_cookies(&kakao_cookies) to update_kakao_coookies.
DeserializeCookies ==
    /\ pc = "deserialize_cookies"
    /\ kakao_cookies' = cache[1]
    /\ kakao_map' = deserialize_cookies(kakao_cookies')
    /\ pc' = "deserialized"
    /\ UNCHANGED <<run, err, max_connections, dirs, jar, cache,
                   new_kakao_cookies, sso_token, daum_cookies, tokenLog,
                   refreshLog, ssoLog, set_cookie, final_cookies>>
    /\ UNCHANGED crawlVars
    /\ UNCHANGED postVars
    /\ UNCHANGED streakVars

NextCodec ==
    \/ SerializeCookies
    \/ DeserializeCookies

SpecCodec == InitCodec /\ [][NextCodec]_vars

\* ------------------------------------------- get_first_id on its own inputs

\* Entries download_board has published in the first board's directory: the
\* name is the prefix of post n.  Two titles give two entries of one ID.
DirTitles == { <<"x", "_", "y">>, <<"z">> }

PublishedEntry(n, title) ==
    [name |-> MakePrefix(CHOOSE d \in Dates : TRUE, PostBoard[1],
                         PostBoard[2], n, title),
     post |-> n, empty |-> FALSE]

DirPublished ==
    {PublishedEntry(1, t) : t \in DirTitles}
        \cup {PublishedEntry(n, <<"z">>) : n \in {3, 4, 5}}

\* Entries whose name has no fourth field, or one that is no number.
DirStrays ==
    { [name |-> TmpPrefix \o <<"0">>, post |-> 0, empty |-> TRUE],
      [name |-> Chars("a_b_c_d"), post |-> 0, empty |-> TRUE] }

\* The first board's directory is absent or holds up to MaxListing entries.
InitDir ==
    /\ run = 1
    /\ pc = "get_first_id"
    /\ err = "none"
    /\ max_connections = DefaultMaxConnections
    /\ todo = << PostBoard >>
    /\ first_id = 0
    /\ latest_id = 0
    /\ id = 0
    /\ \E D \in {<<>>} \cup
                {<<S>> : S \in {T \in SUBSET (DirPublished \cup DirStrays) :
                                    Cardinality(T) <= MaxListing}} :
           dirs = [b \in AllBoards |-> IF b = PostBoard THEN D ELSE <<>>]
    /\ scanLog = <<>>
    /\ fetchLog = <<>>
    /\ post = NoPost
    /\ prefix = <<>>
    /\ tmp_name = <<>>
    /\ scratch = Empty
    /\ next_file = 1
    /\ attach_idx = 0
    /\ inflight = Empty
    /\ assigned = Empty
    /\ results = Empty
    /\ AuthDone
    /\ missingStreak = 0
    /\ streakLog = <<>>

\* Downloader::get_first_id(&download_path), fs::read_dir yielding the
\* entries in any order.
GetFirstId ==
    /\ pc = "get_first_id"
    /\ \E o \in KeyOrders([e \in Entries(Cur) |-> e]) :
           first_id' =
               get_first_id(IF dirs[Cur] = <<>> THEN <<>>
                            ELSE << [i \in DOMAIN o |-> o[i].name] >>)
    /\ pc' = "got_first_id"
    /\ UNCHANGED <<run, err, max_connections, dirs, todo, latest_id, id,
                   scanLog, fetchLog>>
    /\ UNCHANGED postVars
    /\ UNCHANGED authVars
    /\ UNCHANGED streakVars

NextDir == GetFirstId

SpecDir == InitDir /\ [][NextDir]_vars

\* ------------------------------------------------------------------ claims

IsScratchName(name) == SubSeq(name, 1, Len(TmpPrefix)) = TmpPrefix

\* The entries of a board's directory under a final (not scratch) name.
FinalEntries(b) == {e \in Entries(b) : ~ IsScratchName(e.name)}

\* The highest post ID with a published entry in a board's directory.
HighestPublished(b) ==
    IF FinalEntries(b) = {} THEN 0 ELSE Max({e.post : e \in FinalEntries(b)})

C3_AssetFailureFailsPost ==
    (\E i \in DOMAIN results : results[i] = "Err") => pc # "posted"

\* C4: resume across runs.  When a board's scan starts, first_id is the
\* highest post ID with a published entry in the board's directory, plus one.
C4_ResumeAfterHighestPublished ==
    pc = "latest" => first_id = HighestPublished(Cur) + 1

\* C6: the bounded scan is sequential.  The IDs fetched in a board's scan are
\* first_id, first_id + 1, ... in this order, none above latest_id; every
\* fetched ID but the last has been published or skipped; every board
\* scanned before the current one has ended; and the scan of a board whose
\* first_id is above latest_id fetches nothing and can only end.
C6_SequentialBoundedScan ==
    /\ \A k \in DOMAIN fetchLog :
          /\ fetchLog[k].id = first_id + k - 1
          /\ fetchLog[k].id <= latest_id
          /\ k < Len(fetchLog) => fetchLog[k].st \in {"published", "skipped"}
    /\ \A k \in DOMAIN scanLog : k < Len(scanLog) => scanLog[k].st = "ended"
    /\ (pc \in {"tempdir", "assets", "copy", "rename", "posted"}) =>
          /\ fetchLog # <<>>
          /\ fetchLog[Len(fetchLog)].id = id
          /\ fetchLog[Len(fetchLog)].st
                 = (IF pc = "posted" THEN "published" ELSE "posting")
    /\ (pc = "fetch" /\ first_id > latest_id) =>
          /\ fetchLog = <<>>
          /\ err = "none"
          /\ ENABLED BoardEnd
          /\ ~ ENABLED FetchPost

\* C6 witness: the second board of a run has fetched two IDs and published
\* both.
C6_Witness ==
    /\ Len(scanLog) = 2
    /\ Len(fetchLog) = 2
    /\ fetchLog[1].st = "published"
    /\ fetchLog[2].st = "published"

\* The responses C10 is about.
IsFatalBody(l) ==
    /\ l.got = "Body"
    /\ \/ l.exception # <<>> /\ l.exception[1] # DelAlready
       \/ l.exception = <<>> /\ (~ l.date \/ ~ l.name)

ErrorOfBody(l) ==
    IF l.exception # <<>>
    THEN (IF l.exception[1] = NotAuthenticated THEN "NotAuthenticatedException"
          ELSE "APIException")
    ELSE IF ~ l.date THEN "APIDateMissing" ELSE "APINameMissing"

\* C10: fatal fetch outcomes.  A response with the not-authenticated code,
\* with another code that is not the deleted code, or without the date or the
\* title ends the run with the matching error: it is the last ID fetched in
\* the board, the board is the last one scanned in the run, the step that
\* receives it leaves every directory as it was, and nothing but the next run
\* follows.
C10_FatalFetchOutcomes ==
    /\ [](\A k \in DOMAIN fetchLog : IsFatalBody(fetchLog[k]) =>
              /\ k = Len(fetchLog)
              /\ fetchLog[k].st = "failed"
              /\ pc = "failed"
              /\ err = ErrorOfBody(fetchLog[k])
              /\ scanLog[Len(scanLog)] = [board |-> Cur, st |-> "failed"])
    /\ [][ (pc = "fetch" /\ pc' = "failed") => dirs' = dirs ]_vars
    /\ [][ pc = "failed" => (pc' = "download_all" /\ run' = run + 1
                             /\ dirs' = dirs /\ fetchLog' = <<>>) ]_vars

\* C10 witness: the second ID of the second board got an unexpected exception
\* code.
C10_Witness ==
    /\ Len(scanLog) = 2
    /\ Len(fetchLog) = 2
    /\ fetchLog[2].exception = <<OtherCode>>
    /\ pc = "failed"

\* The files of the post whose download has started, has ended.
Started == DOMAIN assigned
Finished == DOMAIN results

RECURSIVE SequentialNames(_, _, _, _)
SequentialNames(p, pre, k, attach) ==
    IF k > Len(AddFiles(p)) THEN <<>>
    ELSE LET image == AddFiles(p)[k]
             idx == IF p.image_list = <<>> THEN {}
                    ELSE {j \in 1..Len(p.image_list[1]) :
                              get_url_basename(p.image_list[1][j])
                                  = get_url_basename(image.downurl)}
         IN  IF idx # {}
             THEN <<ImgName(pre, (CHOOSE r \in idx : \A q \in idx : r <= q) - 1,
                            image.filetype)>>
                      \o SequentialNames(p, pre, k + 1, attach)
             ELSE <<AttachName(pre, attach + 1, image.filetype)>>
                      \o SequentialNames(p, pre, k + 1, attach + 1)

\* C8: the filenames do not depend on the interleaving.  Whatever downloads
\* are in flight or have completed, in whatever order, and whatever
\* max_connections is, each started file has the name the closure gives it
\* when the files are named one after the other, and keeps it.
C8_NamesIndependentOfCompletion ==
    /\ [](\A i \in Started :
              assigned[i] = SequentialNames(post, prefix, 1, 0)[i])
    /\ [][ \A i \in Started : i \in Started' => assigned'[i] = assigned[i] ]_vars

\* C8 witness: with two slots, the second download has completed before the
\* first, and the third file has been named after that.
C8_Witness ==
    /\ max_connections = 2
    /\ post.image_list = <<>>
    /\ 1 \in DOMAIN inflight
    /\ Finished = {2}
    /\ 3 \in Started

\* The 1-based positions in post.images of the entries with the basename of
\* file i's URL.
MatchingRanks(i) ==
    IF post.image_list = <<>> THEN {}
    ELSE {k \in 1..Len(post.image_list[1]) :
              get_url_basename(post.image_list[1][k])
                  = get_url_basename(AddFiles(post)[i].downurl)}

\* C9: asset classification.  A file whose URL basename is that of an entry
\* of images is named {prefix}_img{rank:03}.{ext}, rank the 1-based position
\* of the first such entry; any other file is named
\* {prefix}_attach{idx:03}.{ext}, idx one more than the number of earlier
\* files without such an entry; without images, the files are the
\* attachments 1, 2, 3, ... in file order.
C9_AssetClassification ==
    \A i \in Started :
        LET ext == AddFiles(post)[i].filetype
            ranks == MatchingRanks(i)
            earlier == {j \in 1..(i - 1) : MatchingRanks(j) = {}}
        IN  /\ ranks # {} =>
                  assigned[i] = prefix \o <<"_", "i", "m", "g">>
                      \o FormatPadded(CHOOSE r \in ranks : \A q \in ranks : r <= q,
                                      AssetWidth)
                      \o <<".">> \o ext
            /\ ranks = {} =>
                  assigned[i] = prefix \o <<"_", "a", "t", "t", "a", "c", "h">>
                      \o FormatPadded(Cardinality(earlier) + 1, AssetWidth)
                      \o <<".">> \o ext
            /\ post.image_list = <<>> =>
                  assigned[i] = prefix \o <<"_", "a", "t", "t", "a", "c", "h">>
                      \o FormatPadded(i, AssetWidth) \o <<".">> \o ext

\* C9 witness: three files are named; the second has the basename of both
\* entries of images, the others of none.
C9_Witness ==
    /\ post.image_list = << <<UrlA2, UrlA>> >>
    /\ Started = {1, 2, 3}
    /\ AddFiles(post)[1].downurl = UrlB
    /\ AddFiles(post)[2].downurl = UrlA
    /\ AddFiles(post)[3].downurl = UrlB

\* What holds of the token requests and the refresh of a run whether or not
\* the refresh can fail: the first request carries the loaded credential, the
\* refresh runs only after the first request failed, a second request only
\* after the refresh and with its credential, and there are at most two
\* requests and one refresh.
TokenRequestOrder ==
    /\ Len(tokenLog) <= 2
    /\ Len(refreshLog) <= 1
    /\ Len(tokenLog) >= 1 => tokenLog[1].cookies = kakao_cookies
    /\ Len(refreshLog) = 1 => (Len(tokenLog) >= 1 /\ ~tokenLog[1].ok)
    /\ Len(tokenLog) = 2 =>
           (refreshLog = <<"ok">> /\ tokenLog[2].cookies = new_kakao_cookies)

\* The run has ended in get_cookies: no SSO exchange has been made and none
\* can be, and no post has been fetched and none can be.
EndedBeforeExchange ==
    /\ pc = "failed"
    /\ ssoLog = <<>>
    /\ fetchLog = <<>>
    /\ ~ENABLED GetDaumCookies
    /\ ~ENABLED StartDownload
    /\ ~ENABLED FetchPost

\* C1 as amended: the first token request carries the loaded credential; the
\* refresh runs only if it fails; a refresh that succeeds is followed by
\* exactly one more token request, with the refreshed credential, and a
\* refresh that fails ends get_cookies with its error and no further token
\* request; a run has at most two token requests and one refresh; when the
\* second token request fails, get_cookies ends with the request's error
\* (Authentication when the response holds no token, the transport error
\* otherwise), and neither the SSO exchange nor a post fetch is performed.
C1_RetryOnceAfterRefresh ==
    /\ TokenRequestOrder
    /\ (refreshLog = <<"ok">> /\ pc # "get_sso_token_retry") => Len(tokenLog) = 2
    /\ (Len(refreshLog) = 1 /\ refreshLog # <<"ok">>) =>
           /\ Len(tokenLog) = 1
           /\ err = refreshLog[1]
           /\ EndedBeforeExchange
    /\ (Len(tokenLog) = 2 /\ ~tokenLog[2].ok) =>
           /\ err \in {"Authentication", "Transport"}
           /\ EndedBeforeExchange

\* C1 witness: the first token request failed, the refresh succeeded, and the
\* second request, made with the refreshed credential, found no token.
C1_Witness ==
    /\ Len(tokenLog) = 2
    /\ ~tokenLog[1].ok
    /\ ~tokenLog[2].ok
    /\ refreshLog = <<"ok">>
    /\ tokenLog[2].cookies = new_kakao_cookies
    /\ pc = "failed"
    /\ err = "Authentication"

\* C1 as stated: every refresh is followed by exactly one more token request
\* before the run ends, and a second token request that fails ends
\* get_cookies with the Authentication error.
C1_AsStated ==
    /\ TokenRequestOrder
    /\ (Len(refreshLog) = 1 /\ pc \in {"failed", "download_all"}) =>
           Len(tokenLog) = 2
    /\ (Len(tokenLog) = 2 /\ ~tokenLog[2].ok) =>
           /\ err = "Authentication"
           /\ EndedBeforeExchange

\* The failures at the end of the log with no success after them; a soft miss
\* is neither, and the fatal code ends the run before the counter is touched.
RECURSIVE TrailingMisses(_)
TrailingMisses(log) ==
    IF Len(log) = 0 THEN 0
    ELSE LET o == log[Len(log)].outcome
             before == SubSeq(log, 1, Len(log) - 1)
         IN  IF o = "miss" THEN TrailingMisses(before) + 1
             ELSE IF o = "post" THEN 0
             ELSE TrailingMisses(before)

\* C5: the missing-streak stop.  The counter is the number of consecutive
\* fetch failures; a successful fetch resets it to zero; the scan halts,
\* without error, exactly when it has reached 5, and goes on to the next ID
\* while it is below 5, also after a reset.
C5_MissingStreakStop ==
    /\ missingStreak = TrailingMisses(streakLog)
    /\ (Len(streakLog) > 0 /\ streakLog[Len(streakLog)].outcome = "post")
           => missingStreak = 0
    /\ pc = "streak_halted" => (err = "none" /\ TrailingMisses(streakLog) = 5)
    /\ (pc = "streak_scan" /\ TrailingMisses(streakLog) = 5)
           => (ENABLED StreakHalt /\ ~ENABLED StreakFetch)
    /\ (pc = "streak_scan" /\ TrailingMisses(streakLog) < 5
            /\ Len(streakLog) < MaxStreakFetches)
           => (ENABLED StreakFetch /\ ~ENABLED StreakHalt)
    /\ \A i \in 1..Len(streakLog) : streakLog[i].id = first_id + i - 1

\* C5 witness: four failures, a success, and five more failures have halted
\* the scan.
C5_Witness ==
    /\ pc = "streak_halted"
    /\ Len(streakLog) = 10
    /\ \A i \in 1..4 : streakLog[i].outcome = "miss"
    /\ streakLog[5].outcome = "post"
    /\ \A i \in 6..10 : streakLog[i].outcome = "miss"

\* The response carried the deleted exception code.
IsDeleted(l) == l.got = "Body" /\ l.exception = <<DelAlready>>

\* C11: gap tolerance.  An ID whose response carries the deleted code is
\* skipped: the step that receives it publishes nothing, raises no error and
\* moves the loop to the next ID; the scan does not end with it but at the
\* stop condition, so a scan that has ended has fetched every ID of
\* first_id..=latest_id and published each one that was not deleted.
C11_GapTolerance ==
    /\ [](\A k \in DOMAIN fetchLog : IsDeleted(fetchLog[k]) =>
              /\ fetchLog[k].st = "skipped"
              /\ k = Len(fetchLog) =>
                     /\ err = "none"
                     /\ pc \in {"fetch", "board", "done"}
                     /\ id = fetchLog[k].id + 1
                     /\ scanLog[Len(scanLog)].st \in {"scanning", "ended"})
    /\ [][ (/\ Len(fetchLog') = Len(fetchLog) + 1
            /\ IsDeleted(fetchLog'[Len(fetchLog')])) =>
               /\ dirs' = dirs
               /\ err' = err
               /\ pc' = "fetch"
               /\ id' = id + 1 ]_vars
    /\ []((scanLog # <<>> /\ scanLog[Len(scanLog)].st = "ended") =>
              /\ {fetchLog[k].id : k \in DOMAIN fetchLog} = first_id..latest_id
              /\ \A k \in DOMAIN fetchLog :
                     IF IsDeleted(fetchLog[k]) THEN fetchLog[k].st = "skipped"
                     ELSE /\ fetchLog[k].st = "published"
                          /\ \E e \in Entries(scanLog[Len(scanLog)].board) :
                                 e.post = fetchLog[k].id)

\* C11 witness: the scan of a board has ended after a deleted ID and, after
\* it, a published one.
C11_Witness ==
    /\ scanLog # <<>>
    /\ scanLog[Len(scanLog)].st = "ended"
    /\ Len(fetchLog) = 2
    /\ IsDeleted(fetchLog[1])
    /\ fetchLog[2].st = "published"

\* C12: a decode failure is not fatal.  An ID whose response body fails to
\* decode is skipped as a transient miss: the run does not end with the
\* decode error and the loop moves to the next ID.
C12_DecodeFailureNonFatal ==
    \A k \in DOMAIN fetchLog : fetchLog[k].got = "Decode" =>
        /\ fetchLog[k].st = "skipped"
        /\ err # "Decode"
        /\ pc # "failed"
        /\ id > fetchLog[k].id

\* The cookies a response sets: of each Set-Cookie value the pair before the
\* first ';', its name before the first '=' and its value after it; of a
\* value whose first segment has no '=', the first segment as the name and the
\* second as the value.
RECURSIVE ReturnedPairs(_)
ReturnedPairs(headers) ==
    IF Len(headers) = 0 THEN <<>>
    ELSE LET segs == Split(Head(headers), ";")
             parts == Split(segs[1], "=")
         IN  (IF Len(parts) >= 2
              THEN << <<Trim(parts[1]), Join(Tail(parts), <<"=">>)>> >>
              ELSE << <<segs[1], IF Len(segs) >= 2 THEN segs[2] ELSE <<>> >> >>)
                 \o ReturnedPairs(Tail(headers))

\* C13: the refresh merge.  After a refresh, every name of the original
\* credential has the returned value when the response returned the name with
\* a value, is absent when it was returned empty, and has its original value
\* when it was not returned; no other name is in the result.
C13_RefreshMerge ==
    refreshLog = <<"ok">> =>
        LET orig == deserialize_cookies(kakao_cookies)
            ret == CollectMap(ReturnedPairs(set_cookie))
        IN  /\ DOMAIN final_cookies \subseteq DOMAIN orig
            /\ \A n \in DOMAIN orig :
                   IF n \in DOMAIN ret
                   THEN IF ret[n] # <<>>
                        THEN n \in DOMAIN final_cookies /\ final_cookies[n] = ret[n]
                        ELSE n \notin DOMAIN final_cookies
                   ELSE n \in DOMAIN final_cookies /\ final_cookies[n] = orig[n]

\* C14: the cache file is written by the refresh alone.  A step of get_cookies
\* other than the refresh leaves the cache file as it was (the file goes away
\* only between runs, when it is deleted), so a run whose first token request
\* succeeds never changes it; and after a refresh whose write
\* succeeded the cache file holds a serialization of the merged credential,
\* the very text the retry sends.
C14_CacheWrittenByRefreshOnly ==
    /\ [][ (cache' # cache /\ cache' # <<>>) =>
               (pc = "update_kakao_coookies"
                /\ Len(refreshLog') = Len(refreshLog) + 1) ]_vars
    /\ [][ (cache' # cache /\ cache' = <<>>) => pc' = pc ]_vars
    /\ []((tokenLog # <<>> /\ tokenLog[1].ok) => refreshLog = <<>>)
    /\ [][ (refreshLog = <<>> /\ refreshLog' = <<"ok">>) =>
               /\ cache' = << new_kakao_cookies' >>
               /\ \E o \in KeyOrders(final_cookies') :
                      cache'[1] = serialize_cookies(final_cookies', o) ]_vars
    /\ [][ (Len(tokenLog) = 1 /\ Len(tokenLog') = 2) =>
               /\ cache # <<>>
               /\ tokenLog'[2].cookies = cache[1] ]_vars

\* C14 witness: the refresh replaced a value and dropped a name, the cache
\* file was written, and the retry has been made.
C14_Witness ==
    /\ refreshLog = <<"ok">>
    /\ Len(tokenLog) = 2
    /\ kakao_cookies # new_kakao_cookies
    /\ cache = << new_kakao_cookies >>

\* The credential a cookie jar parses to.
JarCredential(text) ==
    Join(KakaoCookiesOfLines(Split(text, "\n")), <<";", " ">>)

\* C15: cache precedence across runs.  The cache file outlives the runs until
\* it is deleted; a run that finds it loads its credential from it, whatever
\* the cookie jar holds and even when the jar cannot be read; a run that
\* finds no cache file loads the parse of the jar.
C15_CachePrecedence ==
    /\ [][ (pc = "get_cookies" /\ cache # <<>> /\ err' # "ClientBuild") =>
               (pc' = "get_sso_token" /\ kakao_cookies' = cache[1]) ]_vars
    /\ [][ (pc = "get_cookies" /\ cache = <<>> /\ pc' = "get_sso_token") =>
               (jar # <<>> /\ kakao_cookies' = JarCredential(jar[1])) ]_vars
    /\ [][ (cache # <<>> /\ cache' # cache) =>
               \/ pc = "update_kakao_coookies"
               \/ cache' = <<>> /\ pc' = pc /\ run' = run ]_vars
    /\ [][ run' # run => cache' = cache ]_vars

\* C15 witness: a later run has loaded the credential an earlier run's
\* refresh wrote, although the cookie jar has since been replaced by one with
\* another credential.
C15_Witness ==
    /\ run = 2
    /\ pc = "get_sso_token"
    /\ cache # <<>>
    /\ kakao_cookies = cache[1]
    /\ jar # <<>>
    /\ JarCredential(jar[1]) # cache[1]
    /\ cache[1] = Chars("b=2; a=7")

\* C16: serialization round trip.  Whatever credential with unique names is
\* serialized, in whatever order its pairs are written, deserializing the
\* text gives the same credential back: the same names, each with the same
\* value, including values that contain '=' or surrounding spaces.
C16_SerializationRoundTrip ==
    pc = "deserialized" => kakao_map = final_cookies

\* The rows of a Netscape cookie text, seven tab-separated fields each, whose
\* domain field ends with the target domain, as "name=value" in file order.
RECURSIVE DomainRows(_)
DomainRows(lines) ==
    IF Len(lines) = 0 THEN <<>>
    ELSE LET f == Split(Head(lines), "\t")
             n == Len(KakaoDomain)
         IN  (IF /\ Len(f) = 7
                 /\ Len(f[1]) >= n
                 /\ SubSeq(f[1], Len(f[1]) - n + 1, Len(f[1])) = KakaoDomain
              THEN << f[6] \o <<"=">> \o f[7] >> ELSE <<>>)
                 \o DomainRows(Tail(lines))

\* The names of a credential's pairs in the order its text presents them.
PairNames(cookies) ==
    LET pairs == CookiePairs(Split(cookies, ";"))
    IN  [i \in DOMAIN pairs |-> pairs[i][1]]

\* The names of sub come in the order they have in full.
InOrder(sub, full) ==
    \A i, j \in DOMAIN sub :
        i < j => \E p, q \in DOMAIN full :
                     p < q /\ full[p] = sub[i] /\ full[q] = sub[j]

\* C17: cookie-file parse.  The credential loaded from the cookie jar holds
\* exactly the rows whose domain field matches the target domain suffix, in
\* file order, and no row of another domain; and the credential presented
\* after a refresh still has its pairs in that order.
C17_ParseKeepsDomainRowsInOrder ==
    /\ [][ (pc = "get_cookies" /\ cache = <<>> /\ pc' = "get_sso_token") =>
               kakao_cookies' =
                   Join(DomainRows(Split(jar[1], "\n")), <<";", " ">>) ]_vars
    /\ [](refreshLog = <<"ok">> =>
              InOrder(PairNames(new_kakao_cookies), PairNames(kakao_cookies)))
    /\ [][ (Len(tokenLog) = 1 /\ Len(tokenLog') = 2) =>
               InOrder(PairNames(tokenLog'[2].cookies),
                       PairNames(tokenLog[1].cookies)) ]_vars

\* The post IDs of the published entries of the first board's directory.
DirIds == {e.post : e \in Entries(PostBoard) \cap DirPublished}

\* C18: cursor initialisation.  get_first_id returns 1 when the directory is
\* absent or no entry has an embedded post ID, and otherwise the largest
\* embedded post ID plus one, in whatever order the directory is listed and
\* however often an ID occurs; entries without a parsable ID field are
\* ignored.
C18_FirstIdIsMaxPlusOne ==
    pc = "got_first_id" =>
        first_id = (IF DirIds = {} THEN 1 ELSE Max(DirIds) + 1)

\* C18 witness: a directory with entries of the IDs 3, 1, 4, 1, 5 was listed
\* and the cursor starts at 6.
C18_Witness ==
    /\ pc = "got_first_id"
    /\ Entries(PostBoard) = DirPublished
    /\ Cardinality(Entries(PostBoard)) = 5
    /\ first_id = 6

\* C19: prefix/cursor round trip.  For every published post, the ID that
\* get_first_id extracts from the entry name download_board built (the field
\* at index 3 after splitting on '_') is the post's ID, whatever the cafe
\* name, the board name and the title are, '_' in them included.
C19_PrefixCursorRoundTrip ==
    /\ \A b \in AllBoards :
           \A e \in FinalEntries(b) : EmbeddedId(e.name) = << e.post >>
    /\ pc = "posted" => EmbeddedId(prefix) = << id >>

\* C20: asset names are unique within a post.  Two distinct entries of the
\* post's files with the same file type are never given the same file name in
\* the scratch directory, also when their URLs share a basename or match the
\* same entry of image_list; so no download writes over the file of another.
C20_DistinctAssetNames ==
    /\ [](\A i, j \in DOMAIN assigned :
              (i # j /\ AddFiles(post)[i].filetype = AddFiles(post)[j].filetype)
                  => assigned[i] # assigned[j])
    /\ [][ \A n \in DOMAIN scratch :
               n \in DOMAIN scratch' => scratch'[n].src = scratch[n].src ]_vars

====
